---- MODULE Spec2Model ----
(***************************************************************************)
(* Model of the Kyo request dispatcher.  Two entry points exist in the     *)
(* repository: the HTTP/2 worker of src/index.js (variant "index") and     *)
(* createBareHandler of server.js, src/unnamed/part_000 (variant "bare").  *)
(* A run of the model is one server process of one of the two variants.    *)
(* Strings whose contents the code inspects (request URLs, cache keys,     *)
(* documents) are sequences of one-character strings.  The runs of the     *)
(* model hold far fewer keys than the capacity of the LRU (max: 500), so   *)
(* the LRU never evicts by capacity here; it drops entries by age only.    *)
(***************************************************************************)
EXTENDS Integers, Sequences, FiniteSets, TLC

\* ------------------------------------------------------------------------
\* Bounds of the model
\* ------------------------------------------------------------------------
\* number of requests that arrive in one run
MaxReq == 2
\* number of clock steps of one run (one step is DecodeEx seconds)
MaxTicks == 3
\* fragments of markup in a document handed to the charset rewrite
MaxFrags == 5

\* ------------------------------------------------------------------------
\* Program constants
\* ------------------------------------------------------------------------
\* ttl of the in-process LRU cache, in milliseconds (1000 * 60 * 2)
LruTtl == 120000
\* redis expiry of a rendered page, in seconds
RenderEx == 30
\* redis expiry of a decoded page, in seconds
DecodeEx == 60
\* max-age of a rendered page, in seconds
RenderMaxAge == 30
\* max-age of a decoded page, in seconds
DecodeMaxAge == 60
\* the non-numeric code label observed when res.stream.responded is set
StreamStateCode == -1

\* null and undefined where a string (a character sequence) is expected
Null == <<"null">>
Undefined == <<"undefined">>
\* an absent label or header
None == "none"

\* ------------------------------------------------------------------------
\* String literals of the source, as character sequences
\* ------------------------------------------------------------------------
PuppeteerPrefix == <<"/","p","u","p","p","e","t","e","e","r","?">>
ProxyPrefix == <<"/","p","r","o","x","y","/">>
BarePrefix == <<"/","b","a","r","e","/">>
MetricsPath == <<"/","m","e","t","r","i","c","s">>
HttpsScheme == <<"h","t","t","p","s",":","/","/">>
PpPrefix == <<"p","p",":">>
PxPrefix == <<"p","x",":">>
UrlParam == <<"u","r","l">>
MetaUtf8 == <<"<","m","e","t","a"," ","c","h","a","r","s","e","t","=","\"","u","t","f","-","8","\"",">">>
CounterName == "kimutichan_http_requests_total"

\* s.startsWith(p)
StartsWith(s, p) == Len(s) >= Len(p) /\ SubSeq(s, 1, Len(p)) = p

\* s.slice(n): the string without its first n characters
Slice(s, n) == IF n >= Len(s) THEN <<>> ELSE SubSeq(s, n + 1, Len(s))

\* first index i >= from with s[i] = c, or 0 when there is none
RECURSIVE IndexFrom(_, _, _)
IndexFrom(s, c, from) ==
    IF from > Len(s) THEN 0
    ELSE IF s[from] = c THEN from
    ELSE IndexFrom(s, c, from + 1)

\* the query string of a request url: what follows the first "?"
QueryOf(url) ==
    LET q == IndexFrom(url, "?", 1)
    IN  IF q = 0 THEN <<>> ELSE Slice(url, q)

\* the "&"-separated pairs of a query string, in order, empty pairs dropped
RECURSIVE SplitPairs(_)
SplitPairs(q) ==
    IF q = <<>> THEN <<>>
    ELSE LET a == IndexFrom(q, "&", 1)
             first == IF a = 0 THEN q ELSE SubSeq(q, 1, a - 1)
             rest == IF a = 0 THEN <<>> ELSE Slice(q, a)
         IN  IF first = <<>> THEN SplitPairs(rest)
             ELSE <<first>> \o SplitPairs(rest)

PairName(p) ==
    LET e == IndexFrom(p, "=", 1)
    IN  IF e = 0 THEN p ELSE SubSeq(p, 1, e - 1)

PairValue(p) ==
    LET e == IndexFrom(p, "=", 1)
    IN  IF e = 0 THEN <<>> ELSE Slice(p, e)

\* URLSearchParams.get(name): the value of the first pair called name, else null
RECURSIVE SearchGet(_, _)
SearchGet(pairs, name) ==
    IF pairs = <<>> THEN Null
    ELSE IF PairName(Head(pairs)) = name THEN PairValue(Head(pairs))
    ELSE SearchGet(Tail(pairs), name)

\* new URL('http://dummy' + url).searchParams.get('url')
RenderTarget(url) == SearchGet(SplitPairs(QueryOf(url)), UrlParam)

\* a presence test that lets the empty string through
MissingTargetNullOnly(target) == target = Null

\* !target : null and the empty string are both falsy
MissingTarget(target) == target = Null \/ target = <<>>

\* 'https://' + url.replace(/^\/proxy\//, '')   (index.js)
\* 'https://' + url.slice(7)                    (server.js)
DecodeTarget(url) == HttpsScheme \o Slice(url, Len(ProxyPrefix))

\* const key = 'pp:' + target
RenderKey(target) == PpPrefix \o target

\* the decode-proxy key built with the prefix of the render key
DecodeKeySamePrefix(target) == PpPrefix \o target

\* const key = 'px:' + target
DecodeKey(target) == PxPrefix \o target

\* bare.shouldRoute(req) of createBareServer('/bare/')
ShouldRoute(url) == StartsWith(url, BarePrefix)

\* ------------------------------------------------------------------------
\* Classification
\* ------------------------------------------------------------------------
\* src/index.js: the handler label of the metric observation
IndexHandler(url) ==
    IF StartsWith(url, PuppeteerPrefix) THEN "puppeteer"
    ELSE IF StartsWith(url, ProxyPrefix) THEN "decode"
    ELSE IF ShouldRoute(url) THEN "bare"
    ELSE "static"

\* server.js: the handler label, which also selects the branch
BareHandler(url) ==
    IF StartsWith(url, PuppeteerPrefix) THEN "puppeteer"
    ELSE IF StartsWith(url, ProxyPrefix) THEN "decode"
    ELSE IF ShouldRoute(url) THEN "bare"
    ELSE IF url = MetricsPath THEN "metrics"
    ELSE "static"

HandlerOf(v, url) == IF v = "index" THEN IndexHandler(url) ELSE BareHandler(url)

\* src/index.js: the branch of the try block that runs, chosen by its own tests
IndexBranch(url) ==
    IF StartsWith(url, PuppeteerPrefix) THEN "puppeteer"
    ELSE IF StartsWith(url, ProxyPrefix) THEN "decode"
    ELSE IF ShouldRoute(url) THEN "bare"
    ELSE "static"

\* server.js: the branch that runs is the one the label names
BareBranch(url) == BareHandler(url)

BranchOf(v, url) == IF v = "index" THEN IndexBranch(url) ELSE BareBranch(url)

\* a server without the /metrics listener
ListenerNeverAnswers(v, url) == FALSE

\* src/index.js: the second 'request' listener answers when req.url === '/metrics'
ListenerAnswers(v, url) == v = "index" /\ url = MetricsPath

\* ------------------------------------------------------------------------
\* Documents and the charset normaliser
\* ------------------------------------------------------------------------
Replacement == "U+FFFD"
NonAscii == {"e'"}

UpperToLower ==
    [c \in {"M", "E", "T", "A", "C", "H", "R", "S", "U", "F"} |->
        CASE c = "M" -> "m" [] c = "E" -> "e" [] c = "T" -> "t" [] c = "A" -> "a"
          [] c = "C" -> "c" [] c = "H" -> "h" [] c = "R" -> "r" [] c = "S" -> "s"
          [] c = "U" -> "u" [] c = "F" -> "f"]

LowerChar(c) == IF c \in DOMAIN UpperToLower THEN UpperToLower[c] ELSE c

\* s.toLowerCase()
LowerSeq(s) == [i \in 1..Len(s) |-> LowerChar(s[i])]

MetaOpen == <<"<","m","e","t","a">>
CharsetEq == <<"c","h","a","r","s","e","t","=">>

\* s, case folded, reads p at position i
ReadsAt(s, i, p) ==
    /\ i >= 1
    /\ i + Len(p) - 1 <= Len(s)
    /\ LowerSeq(SubSeq(s, i, i + Len(p) - 1)) = p

\* a match that stops short of its closing ">"
MetaMatchEndBeforeClose(s, i) ==
    IF ~ReadsAt(s, i, MetaOpen) THEN 0
    ELSE LET g == IndexFrom(s, ">", i + Len(MetaOpen))
         IN  IF g = 0 THEN 0
             ELSE IF \E j \in (i + Len(MetaOpen) + 1)..(g - Len(CharsetEq) - 1) :
                        ReadsAt(s, j, CharsetEq)
                  THEN g - 1 ELSE 0

\* /<meta[^>]+charset=[^>]+>/i matched at position i: the index of the closing
\* ">" of the match, or 0.  [^>] cannot cross a ">", so a match ends at the
\* first ">" after "<meta".
MetaMatchEnd(s, i) ==
    IF ~ReadsAt(s, i, MetaOpen) THEN 0
    ELSE LET g == IndexFrom(s, ">", i + Len(MetaOpen))
         IN  IF g = 0 THEN 0
             ELSE IF \E j \in (i + Len(MetaOpen) + 1)..(g - Len(CharsetEq) - 1) :
                        ReadsAt(s, j, CharsetEq)
                  THEN g ELSE 0

\* the leftmost position at which the pattern matches, or 0
RECURSIVE MetaMatchStart(_, _)
MetaMatchStart(s, i) ==
    IF i > Len(s) THEN 0
    ELSE IF MetaMatchEnd(s, i) # 0 THEN i
    ELSE MetaMatchStart(s, i + 1)

\* html.replace(/<meta[^>]+charset=[^>]+>/i, '<meta charset="utf-8">')
MetaRewrite(s) ==
    LET i == MetaMatchStart(s, 1)
    IN  IF i = 0 THEN s
        ELSE SubSeq(s, 1, i - 1) \o MetaUtf8 \o Slice(s, MetaMatchEnd(s, i))

\* encodings new TextDecoder(label) accepts; any other label throws
KnownEncodings == {"utf-8", "shift_jis"}

\* m ? m[1].toLowerCase() : 'utf-8'
CharsetLabel(ctCharset) ==
    IF ctCharset = None THEN "utf-8"
    ELSE IF ctCharset = "Shift_JIS" THEN "shift_jis"
    ELSE ctCharset

\* new TextDecoder(enc).decode(buf): bytes written in another encoding decode
\* without error, every non-ASCII character becoming U+FFFD
DecodeAs(enc, buf) ==
    IF enc = buf.enc THEN buf.text
    ELSE [i \in 1..Len(buf.text) |->
            IF buf.text[i] \in NonAscii THEN Replacement ELSE buf.text[i]]

\* a decoder handed the declared label whatever it is, with no fallback
DecodeBodyNoFallback(ctCharset, buf) == DecodeAs(CharsetLabel(ctCharset), buf)

\* try { new TextDecoder(cs).decode(buf) } catch { new TextDecoder('utf-8').decode(buf) }
DecodeBody(ctCharset, buf) ==
    LET cs == CharsetLabel(ctCharset)
    IN  IF cs \in KnownEncodings THEN DecodeAs(cs, buf) ELSE DecodeAs("utf-8", buf)

\* the decode-proxy branch, from the fetched response to the cached text
NormalizeFetched(rsp) == MetaRewrite(DecodeBody(rsp.charset, rsp.buf))


\* ------------------------------------------------------------------------
\* Inputs of the environment
\* ------------------------------------------------------------------------
UrlRender == PuppeteerPrefix \o UrlParam \o <<"=">> \o HttpsScheme \o <<"a">>
UrlRenderEmpty == PuppeteerPrefix \o UrlParam \o <<"=">>
UrlRenderNone == PuppeteerPrefix \o <<"x","=","1">>
UrlProxy == ProxyPrefix \o <<"a">>
UrlTunnel == BarePrefix \o <<"a">>
UrlStatic == <<"/","a">>

\* request urls the clients send
Urls == {UrlRender, UrlRenderEmpty, UrlRenderNone, UrlProxy, UrlTunnel, MetricsPath, UrlStatic}

GzipToken == <<"g","z","i","p">>
\* Accept-Encoding request header values: absent, "gzip"
AcceptValues == {Undefined, GzipToken}

\* s.includes(p)
Includes(s, p) == \E i \in 1..(Len(s) - Len(p) + 1) : SubSeq(s, i, i + Len(p) - 1) = p

DocEmpty == <<>>
DocPlain == <<"h","i">>
DocMeta == <<"<","M","E","T","A"," ","c","h","a","r","s","e","t","=","x",">","e'">>

\* what page.content() can return: a serialised DOM, never the empty string
PageDocs == {DocPlain, DocMeta}

\* what fetch can return: the charset of the Content-Type header and the body
FetchResponses ==
    { [charset |-> None, buf |-> [enc |-> "utf-8", text |-> DocEmpty]],
      [charset |-> "Shift_JIS", buf |-> [enc |-> "shift_jis", text |-> DocMeta]],
      [charset |-> "x-none", buf |-> [enc |-> "utf-8", text |-> DocMeta]] }

\* outcome of an awaited call of a collaborator
Outcomes == {"ok", "fail"}

\* err.statusCode of the error serve-static passes on (0: the error has none)
StaticErrors == {403, 0}

\* status codes the tunnel adapter answers with
TunnelCodes == {200, 502}

\* reading a property of undefined
Throws == <<"TypeError">>
\* socket._httpMessage is undefined, or has no headers
NoMessage == <<"no message">>

\* state of the socket objects send() reads.  src/index.js reads
\* socket.encrypted and socket._httpMessage.headers['accept-encoding'];
\* server.js reads res.socket.serverResponse.
SockEnv(v) ==
    IF v = "index"
    THEN [encrypted : {TRUE}, httpMessage : {NoMessage} \cup AcceptValues]
    ELSE [serverResponse : {None, "response"}]

\* ------------------------------------------------------------------------
\* State
\* ------------------------------------------------------------------------
VARIABLES
    variant,      \* "index": src/index.js, "bare": server.js
    sequential,   \* TRUE when the clients send a request only after the last one ended
    now,          \* clock, in seconds
    crashed,      \* the process died of an uncaught exception
    arrived,      \* number of requests received
    reqs,         \* the requests, by order of arrival
    memCache,     \* the LRU: key -> [val, start]
    redis,        \* the remote cache: key -> [val, exp]
    httpCounter,  \* kimutichan_http_requests_total: <<handler, code>> -> count
    doc,          \* a document handed to the charset rewrite, as its fragments
    outs          \* what the rewrite returned: once, then applied to its result

vars == <<variant, sequential, now, crashed, arrived, reqs, memCache, redis, httpCounter,
          doc, outs>>

Ids == 1..MaxReq

\* a request and its response object before the handler runs
\* a response body: a text, a gzip stream of a text, or the metrics exposition
NoBody == [kind |-> "none", text |-> <<>>, samples |-> <<>>]
TextBody(t) == [kind |-> "text", text |-> t, samples |-> <<>>]

\* zlib.gzip(data) and its inverse
Gzip(t) == [kind |-> "gzip", text |-> t, samples |-> <<>>]
Gunzip(b) == IF b.kind = "gzip" THEN TextBody(b.text) ELSE b

NewReq ==
    [ pc |-> "idle", url |-> <<>>, ae |-> Undefined, handler |-> None, branch |-> None,
      key |-> Null, val |-> Null, maxAge |-> 0,
      status |-> 0, ctype |-> None, cc |-> 0, enc |-> None, body |-> NoBody,
      ended |-> FALSE, writers |-> {}, obs |-> <<>>, io |-> {}, failed |-> FALSE,
      sentAt |-> 0, charset |-> None ]

Finished(r) == r.pc \in {"done", "rejected"}

InFlight(r) == r.pc \notin {"idle", "done", "rejected"}

\* ------------------------------------------------------------------------
\* Metrics registry
\* ------------------------------------------------------------------------
\* httpCounter.inc({ handler, code })
Inc(c, h, code) ==
    LET l == <<h, code>>
    IN  IF l \in DOMAIN c THEN [c EXCEPT ![l] = @ + 1]
        ELSE [x \in DOMAIN c \cup {l} |-> IF x = l THEN 1 ELSE c[x]]

\* observe(code)
Observe(r, code) == [r EXCEPT !.obs = Append(@, code)]

\* the counter after the step that took request r to r2
Counted(c, r, r2) ==
    IF Len(r2.obs) > Len(r.obs) THEN Inc(c, r2.handler, r2.obs[Len(r2.obs)]) ELSE c

\* client.register.metrics(): the exposition names the counter and lists its samples
Exposition(c) == [kind |-> "metrics", text |-> <<CounterName>>, samples |-> c]

MetricsType == "text/plain; version=0.0.4; charset=utf-8"
HtmlType == "text/html; charset=utf-8"
PlainType == "text/plain; charset=utf-8"

\* ------------------------------------------------------------------------
\* Cache tiers
\* ------------------------------------------------------------------------
\* an LRU built without its ttl option
StaleNever(e, t) == FALSE

\* lru-cache: an entry is stale once it is older than the ttl
Stale(e, t) == (t - e.start) * 1000 > LruTtl

\* memCache.get(key)
MemGet(m, k, t) ==
    IF k \in DOMAIN m /\ ~Stale(m[k], t) THEN m[k].val ELSE Undefined

\* the LRU after memCache.get(key): a stale entry is deleted by the get
MemAfterGet(m, k, t) ==
    IF k \in DOMAIN m /\ Stale(m[k], t) THEN [x \in DOMAIN m \ {k} |-> m[x]] ELSE m

\* a set that keeps the value a key already has
MemSetKeepsFirst(m, k, v, t) ==
    IF k \in DOMAIN m THEN m
    ELSE [x \in DOMAIN m \cup {k} |-> IF x = k THEN [val |-> v, start |-> t] ELSE m[x]]

\* memCache.set(key, value)
MemSet(m, k, v, t) ==
    [x \in DOMAIN m \cup {k} |-> IF x = k THEN [val |-> v, start |-> t] ELSE m[x]]

\* redis.get(key)
RedisGet(rd, k, t) ==
    IF k \in DOMAIN rd /\ t < rd[k].exp THEN rd[k].val ELSE Null

\* a write to the remote tier that is acknowledged and lost
RedisSetDropped(rd, k, v, t, ex) == rd

\* redis.set(key, value, 'EX', seconds)
RedisSet(rd, k, v, t, ex) ==
    [x \in DOMAIN rd \cup {k} |-> IF x = k THEN [val |-> v, exp |-> t + ex] ELSE rd[x]]

\* redis drops the keys whose expiry has passed
RedisExpire(rd, t) ==
    [x \in {k \in DOMAIN rd : t < rd[k].exp} |-> rd[x]]

\* a handler that copies what it found in the remote tier into the local one
MemAfterRemoteHitPromotes(m, k, v, t) == MemSet(m, k, v, t)

\* the local tier after redis.get returned a value: the handler sends it and
\* never calls memCache.set with it
MemAfterRemoteHit(m, k, v, t) == m

\* a handler that takes its value out of the local tier when it fails
MemAfterFailureRollsBack(m, k) == [x \in DOMAIN m \ {k} |-> m[x]]

\* the local tier after a request failed: neither catch (e) nor a rejected
\* handler touches memCache
MemAfterFailure(m, k) == m

\* JavaScript truthiness of a cached value: undefined, null and '' are falsy
Truthy(v) == v # Undefined /\ v # Null /\ v # <<>>

\* memCache.get(key) || await redis.get(key), as one expression
CacheLookup(m, rd, k, t) ==
    IF Truthy(MemGet(m, k, t)) THEN MemGet(m, k, t) ELSE RedisGet(rd, k, t)


\* ------------------------------------------------------------------------
\* Response encoder
\* ------------------------------------------------------------------------
\* the Accept-Encoding value send() works with, or Throws.
\* src/index.js: socket.encrypted ? socket._httpMessage.headers['accept-encoding'] : ''
\* server.js: res.socket.serverResponse
\*              ? res.socket.serverResponse.getHeader('accept-encoding') || '' : ''
\* (getHeader reads the headers of the response, where nothing sets this one)
AcceptSeen(v, sock) ==
    IF v = "index"
    THEN IF sock.encrypted
         THEN IF sock.httpMessage = NoMessage THEN Throws ELSE sock.httpMessage
         ELSE <<>>
    ELSE <<>>

\* accept && accept.includes('gzip')
WantsGzip(accept) == accept # Undefined /\ Includes(accept, GzipToken)

\* send(res, data, type, maxAge): the two headers are set first; the socket is
\* read next, which may throw (pc "threw"); with gzip the body is ended later
\* by the callback of zlib.gzip (pc "gzip"), else it is ended at once (pc "sent")
Send(v, r, data, type, maxAge, sock) ==
    LET r1 == [r EXCEPT !.ctype = type, !.cc = maxAge, !.writers = @ \cup {"handler"}]
        accept == AcceptSeen(v, sock)
    IN  IF accept = Throws THEN [r1 EXCEPT !.pc = "threw"]
        ELSE IF WantsGzip(accept)
        THEN [r1 EXCEPT !.enc = "gzip", !.val = data, !.pc = "gzip"]
        ELSE [r1 EXCEPT !.status = 200, !.body = TextBody(data), !.ended = TRUE,
                        !.pc = "sent"]

\* src/index.js catch (e): writeHead(500, ...), end('Internal Error'), observe(500).
\* server.js has no try: the promise of the handler rejects and nothing is sent.
Fail(v, r) ==
    IF v = "index"
    THEN Observe([r EXCEPT !.status = 500, !.ctype = PlainType,
                           !.body = TextBody(<<"Internal Error">>), !.ended = TRUE,
                           !.writers = @ \cup {"handler"}, !.failed = TRUE,
                           !.pc = "done"], 500)
    ELSE [r EXCEPT !.failed = TRUE, !.pc = "rejected"]

\* send(res, html, 'text/html; charset=utf-8', maxAge); observe(200); return
SendAndObserve(v, r, data, sock, t) ==
    LET r1 == Send(v, r, data, HtmlType, r.maxAge, sock)
    IN  IF r1.pc = "threw" THEN Fail(v, r1)
        ELSE IF r1.pc = "gzip" THEN Observe([r1 EXCEPT !.sentAt = t], 200)
        ELSE Observe([r1 EXCEPT !.pc = "done", !.sentAt = t], 200)

\* res.writeHead(400, ...); res.end('Missing url'); observe(400)
MissingUrl(r) ==
    Observe([r EXCEPT !.status = 400, !.ctype = PlainType,
                      !.body = TextBody(<<"Missing url">>), !.ended = TRUE,
                      !.writers = @ \cup {"handler"}, !.pc = "done"], 400)


\* ------------------------------------------------------------------------
\* The request handler, up to its first suspension
\* ------------------------------------------------------------------------
\* let html = memCache.get(key) || await redis.get(key): a truthy local value
\* is sent without suspending, else redis.get is awaited
Lookup(v, r, m, sock, t) ==
    LET hit == MemGet(m, r.key, t)
        r1 == [r EXCEPT !.io = @ \cup {"memGet"}]
    IN  IF Truthy(hit) THEN SendAndObserve(v, r1, hit, sock, t)
        ELSE [r1 EXCEPT !.io = @ \cup {"redisGet"}, !.pc = "redisGet"]

\* the puppeteer branch calling send() without its maxAge argument, so that
\* the default of the parameter (60) applies
RenderBranchDefaultMaxAge(v, r, m, sock, t) ==
    LET target == RenderTarget(r.url)
    IN  IF MissingTarget(target) THEN MissingUrl(r)
        ELSE Lookup(v, [r EXCEPT !.key = RenderKey(target), !.maxAge = DecodeMaxAge],
                    m, sock, t)

\* the puppeteer branch
RenderBranch(v, r, m, sock, t) ==
    LET target == RenderTarget(r.url)
    IN  IF MissingTarget(target) THEN MissingUrl(r)
        ELSE Lookup(v, [r EXCEPT !.key = RenderKey(target), !.maxAge = RenderMaxAge],
                    m, sock, t)

\* the decode-proxy branch
DecodeBranch(v, r, m, sock, t) ==
    Lookup(v, [r EXCEPT !.key = DecodeKey(DecodeTarget(r.url)), !.maxAge = DecodeMaxAge],
           m, sock, t)

\* bare.routeRequest(req, res), then
\* src/index.js: observe(res.stream.responded ? res.stream.state : 200)
\* server.js: observe(200)
TunnelBranch(v, r, responded) ==
    Observe([r EXCEPT !.pc = "tunnel"],
            IF v = "index" /\ responded THEN StreamStateCode ELSE 200)

\* server.js: res.setHeader('Content-Type', ...); await client.register.metrics()
MetricsBranch(r) ==
    [r EXCEPT !.ctype = MetricsType, !.writers = @ \cup {"handler"}, !.pc = "metrics"]

\* serve(req, res, callback): the lookup of the file is asynchronous
StaticBranch(r) == [r EXCEPT !.pc = "static"]

\* the handler from its entry to its first suspension
Dispatch(v, r, m, sock, responded, t) ==
    CASE r.branch = "puppeteer" -> RenderBranch(v, r, m, sock, t)
      [] r.branch = "decode" -> DecodeBranch(v, r, m, sock, t)
      [] r.branch = "bare" -> TunnelBranch(v, r, responded)
      [] r.branch = "metrics" -> MetricsBranch(r)
      [] OTHER -> StaticBranch(r)

\* src/index.js server.on('request'): runs after the handler has suspended
Listener(v, r, c) ==
    IF ListenerAnswers(v, r.url)
    THEN [r EXCEPT !.ctype = MetricsType, !.status = 200, !.body = Exposition(c),
                   !.ended = TRUE, !.writers = @ \cup {"listener"}]
    ELSE r

\* ------------------------------------------------------------------------
\* Actions
\* ------------------------------------------------------------------------
Init ==
    /\ variant \in {"index", "bare"}
    /\ sequential = FALSE
    /\ now = 0
    /\ crashed = FALSE
    /\ arrived = 0
    /\ reqs = [i \in Ids |-> NewReq]
    /\ memCache = <<>>
    /\ redis = <<>>
    /\ httpCounter = <<>>
    /\ doc = <<>>
    /\ outs = <<>>

\* the same, with clients that wait for the end of a request before the next
InitSeq ==
    /\ variant \in {"index", "bare"}
    /\ sequential = TRUE
    /\ now = 0
    /\ crashed = FALSE
    /\ arrived = 0
    /\ reqs = [i \in Ids |-> NewReq]
    /\ memCache = <<>>
    /\ redis = <<>>
    /\ httpCounter = <<>>
    /\ doc = <<>>
    /\ outs = <<>>

\* the step that takes request i from r to r2; an unhandled rejection ends the
\* process or is only reported, depending on the runtime
Step(i, r2) ==
    /\ reqs' = [reqs EXCEPT ![i] = r2]
    /\ httpCounter' = Counted(httpCounter, reqs[i], r2)
    /\ crashed' \in (IF r2.pc = "rejected" THEN BOOLEAN ELSE {FALSE})

\* a request arrives: both 'request' listeners run
Arrive(u, ae, sock, responded) ==
    /\ ~crashed
    /\ arrived < MaxReq
    /\ sequential => \A j \in Ids : ~InFlight(reqs[j])
    /\ LET i == arrived + 1
           r0 == [NewReq EXCEPT !.url = u, !.ae = ae,
                                !.handler = HandlerOf(variant, u),
                                !.branch = BranchOf(variant, u)]
           r1 == Dispatch(variant, r0, memCache, sock, responded, now)
           r2 == Listener(variant, r1, httpCounter)
       IN  /\ reqs' = [reqs EXCEPT ![i] = r2]
           /\ httpCounter' = Counted(httpCounter, r0, r2)
           /\ memCache' = IF "memGet" \in r2.io
                          THEN MemAfterGet(memCache, r2.key, now) ELSE memCache
    /\ arrived' = arrived + 1
    /\ UNCHANGED <<doc, outs, variant, sequential, now, crashed, redis>>

\* await redis.get(key) settles
RedisGetDone(i, out, sock) ==
    /\ ~crashed
    /\ reqs[i].pc = "redisGet"
    /\ LET r == reqs[i]
           v == RedisGet(redis, r.key, now)
       IN  /\ Step(i, IF out = "fail" THEN Fail(variant, r)
                      ELSE IF Truthy(v) THEN SendAndObserve(variant, r, v, sock, now)
                      ELSE IF r.branch = "puppeteer"
                           THEN [r EXCEPT !.io = @ \cup {"execute"}, !.pc = "execute"]
                           ELSE [r EXCEPT !.io = @ \cup {"fetch"}, !.pc = "fetch"])
           /\ memCache' = IF out = "ok" /\ Truthy(v)
                          THEN MemAfterRemoteHit(memCache, r.key, v, now) ELSE memCache
    /\ UNCHANGED <<doc, outs, variant, sequential, now, arrived, redis>>

\* await puppeteerCluster.execute(target) settles: the task returns the page
\* with its meta charset rewritten; memCache.set runs before the next await
ExecuteDone(i, out, page) ==
    /\ ~crashed
    /\ reqs[i].pc = "execute"
    /\ LET r == reqs[i]
           html == MetaRewrite(page)
       IN  IF out = "fail"
           THEN Step(i, Fail(variant, r)) /\ UNCHANGED memCache
           ELSE /\ Step(i, [r EXCEPT !.val = html, !.io = @ \cup {"memSet", "redisSet"},
                                     !.pc = "redisSet"])
                /\ memCache' = MemSet(memCache, r.key, html, now)
    /\ UNCHANGED <<doc, outs, variant, sequential, now, arrived, redis>>

\* await fetch(target, ...) settles
FetchDone(i, out) ==
    /\ ~crashed
    /\ reqs[i].pc = "fetch"
    /\ Step(i, IF out = "fail" THEN Fail(variant, reqs[i])
               ELSE [reqs[i] EXCEPT !.pc = "body"])
    /\ UNCHANGED <<doc, outs, variant, sequential, now, arrived, memCache, redis>>

\* await rsp.arrayBuffer() settles: decode, rewrite, memCache.set
BodyDone(i, out, rsp) ==
    /\ ~crashed
    /\ reqs[i].pc = "body"
    /\ LET r == reqs[i]
           text == NormalizeFetched(rsp)
       IN  IF out = "fail"
           THEN Step(i, Fail(variant, r)) /\ UNCHANGED memCache
           ELSE /\ Step(i, [r EXCEPT !.val = text, !.io = @ \cup {"memSet", "redisSet"},
                                     !.charset = rsp.charset, !.pc = "redisSet"])
                /\ memCache' = MemSet(memCache, r.key, text, now)
    /\ UNCHANGED <<doc, outs, variant, sequential, now, arrived, redis>>

\* the 'EX' argument of redis.set
ExpiryOf(r) == IF r.branch = "puppeteer" THEN RenderEx ELSE DecodeEx

\* await redis.set(key, value, 'EX', n) settles, then send and observe(200)
RedisSetDone(i, out, sock) ==
    /\ ~crashed
    /\ reqs[i].pc = "redisSet"
    /\ LET r == reqs[i]
       IN  /\ IF out = "fail"
              THEN Step(i, Fail(variant, r)) /\ UNCHANGED redis
              ELSE /\ Step(i, SendAndObserve(variant, r, r.val, sock, now))
                   /\ redis' = RedisSet(redis, r.key, r.val, now, ExpiryOf(r))
           /\ memCache' = IF reqs'[i].failed THEN MemAfterFailure(memCache, r.key)
                          ELSE memCache
    /\ UNCHANGED <<doc, outs, variant, sequential, now, arrived>>

\* the callback of zlib.gzip: (_, buf) => res.end(buf)
GzipDone(i) ==
    /\ ~crashed
    /\ reqs[i].pc = "gzip"
    /\ Step(i, [reqs[i] EXCEPT !.status = 200, !.body = Gzip(reqs[i].val),
                               !.ended = TRUE, !.pc = "done"])
    /\ UNCHANGED <<doc, outs, variant, sequential, now, arrived, memCache, redis>>

\* server.js: res.end(await client.register.metrics()); observe(200)
MetricsDone(i) ==
    /\ ~crashed
    /\ reqs[i].pc = "metrics"
    /\ Step(i, Observe([reqs[i] EXCEPT !.status = 200, !.body = Exposition(httpCounter),
                                       !.ended = TRUE, !.pc = "done"], 200))
    /\ UNCHANGED <<doc, outs, variant, sequential, now, arrived, memCache, redis>>

\* the tunnel adapter answers the request it was handed
TunnelDone(i, code) ==
    /\ ~crashed
    /\ reqs[i].pc = "tunnel"
    /\ Step(i, [reqs[i] EXCEPT !.status = code, !.body = TextBody(<<"tunnel">>),
                               !.ended = TRUE, !.writers = @ \cup {"tunnel"},
                               !.pc = "done"])
    /\ UNCHANGED <<doc, outs, variant, sequential, now, arrived, memCache, redis>>

\* the callback of serve(): err?.statusCode || 404, writeHead, end, observe
StaticCallback(r, statusCode) ==
    LET code == IF statusCode = 0 THEN 404 ELSE statusCode
    IN  IF r.ended
        THEN Observe([r EXCEPT !.writers = @ \cup {"handler"}, !.pc = "done"],
                     code)
        ELSE Observe([r EXCEPT !.status = code, !.ctype = PlainType,
                               !.body = TextBody(<<"err.stack || Not Found">>),
                               !.ended = TRUE, !.writers = @ \cup {"handler"},
                               !.pc = "done"], code)

\* serve-static settles: it answers a hit itself and calls back on an error.
\* When the response was already ended (by the /metrics listener) a hit turns
\* into error 500, and writeHead in the callback either throws out of the
\* callback (late = "throws": the process dies) or is ignored.
StaticDone(i, out, late) ==
    /\ ~crashed
    /\ reqs[i].pc = "static"
    /\ LET r == reqs[i]
       IN  IF out = 200 /\ ~r.ended
           THEN /\ Step(i, [r EXCEPT !.status = 200, !.ctype = "file", !.cc = 0,
                                     !.body = TextBody(<<"file">>), !.ended = TRUE,
                                     !.writers = @ \cup {"serve"}, !.pc = "done"])
           ELSE IF r.ended /\ late = "throws"
           THEN /\ reqs' = [reqs EXCEPT ![i] = [r EXCEPT !.writers = @ \cup {"handler"},
                                                        !.pc = "died"]]
                /\ crashed' = TRUE
                /\ UNCHANGED httpCounter
           ELSE Step(i, StaticCallback(r, IF out = 200 THEN 500 ELSE out))
    /\ UNCHANGED <<doc, outs, variant, sequential, now, arrived, memCache, redis>>

\* time passes; redis drops what has expired
Tick ==
    /\ ~crashed
    /\ now < MaxTicks * DecodeEx
    /\ now' = now + DecodeEx
    /\ redis' = RedisExpire(redis, now')
    /\ UNCHANGED <<doc, outs, variant, sequential, crashed, arrived, reqs, memCache,
                   httpCounter>>

Next ==
    \/ \E u \in Urls, ae \in AcceptValues, sock \in SockEnv(variant), responded \in BOOLEAN :
          Arrive(u, ae, sock, responded)
    \/ \E i \in Ids, out \in Outcomes, sock \in SockEnv(variant) : RedisGetDone(i, out, sock)
    \/ \E i \in Ids, out \in Outcomes, page \in PageDocs : ExecuteDone(i, out, page)
    \/ \E i \in Ids, out \in Outcomes : FetchDone(i, out)
    \/ \E i \in Ids, out \in Outcomes, rsp \in FetchResponses : BodyDone(i, out, rsp)
    \/ \E i \in Ids, out \in Outcomes, sock \in SockEnv(variant) : RedisSetDone(i, out, sock)
    \/ \E i \in Ids : GzipDone(i)
    \/ \E i \in Ids : MetricsDone(i)
    \/ \E i \in Ids, code \in TunnelCodes : TunnelDone(i, code)
    \/ \E i \in Ids, out \in {200} \cup StaticErrors, late \in {"throws", "ignored"} :
          StaticDone(i, out, late)
    \/ Tick

Spec == Init /\ [][Next]_vars

SpecSeq == InitSeq /\ [][Next]_vars


\* ------------------------------------------------------------------------
\* A worker that starts next to a remote cache already written to
\* ------------------------------------------------------------------------
\* what another worker of the cluster (or an earlier run: the remote cache is
\* persistent and shared) has stored for the targets of this model
PeerWrites ==
    { [k \in {RenderKey(RenderTarget(UrlRender))} |->
          [val |-> MetaRewrite(p), exp |-> RenderEx]] : p \in PageDocs }
    \cup
    { [k \in {DecodeKey(DecodeTarget(UrlProxy))} |->
          [val |-> NormalizeFetched(rsp), exp |-> DecodeEx]] : rsp \in FetchResponses }

InitPeer ==
    /\ variant \in {"index", "bare"}
    /\ sequential = TRUE
    /\ now = 0
    /\ crashed = FALSE
    /\ arrived = 0
    /\ reqs = [i \in Ids |-> NewReq]
    /\ memCache = <<>>
    /\ redis \in PeerWrites
    /\ httpCounter = <<>>
    /\ doc = <<>>
    /\ outs = <<>>

SpecPeer == InitPeer /\ [][Next]_vars

\* ------------------------------------------------------------------------
\* The charset rewrite on its own
\* ------------------------------------------------------------------------
\* pieces of markup a document is put together from
DocFragments ==
    { MetaOpen, <<" ">>, CharsetEq, <<"\"", "U", "T", "F", "-", "8", "\"">>, <<">">>,
      MetaUtf8, SubSeq(DocMeta, 1, Len(DocMeta) - 2) }

\* the text of a document given as its fragments
RECURSIVE Flat(_)
Flat(d) == IF d = <<>> THEN <<>> ELSE Head(d) \o Flat(Tail(d))

InitDocs ==
    /\ variant = "index"
    /\ sequential = TRUE
    /\ now = 0
    /\ crashed = FALSE
    /\ arrived = 0
    /\ reqs = [i \in Ids |-> NewReq]
    /\ memCache = <<>>
    /\ redis = <<>>
    /\ httpCounter = <<>>
    /\ doc = <<>>
    /\ outs = <<>>

\* the document grows by one fragment
AppendFragment(f) ==
    /\ outs = <<>>
    /\ Len(doc) < MaxFrags
    /\ doc' = Append(doc, f)
    /\ UNCHANGED <<outs, variant, sequential, now, crashed, arrived, reqs, memCache,
                   redis, httpCounter>>

\* text.replace(/<meta[^>]+charset=[^>]+>/i, '<meta charset="utf-8">'), applied
\* to the document and then to its own result
Normalize ==
    /\ Len(outs) < 2
    /\ outs' = Append(outs, MetaRewrite(IF outs = <<>> THEN Flat(doc) ELSE outs[1]))
    /\ UNCHANGED <<doc, variant, sequential, now, crashed, arrived, reqs, memCache,
                   redis, httpCounter>>

NextDocs ==
    \/ \E f \in DocFragments : AppendFragment(f)
    \/ Normalize

SpecDocs == InitDocs /\ [][NextDocs]_vars

\* ------------------------------------------------------------------------
\* Claims
\* ------------------------------------------------------------------------
Req(i) == reqs[i]

Started(i) == Req(i).pc # "idle"

\* C1: every request whose handling has run to its end has exactly one metric
\* observation, never none and never two.
C1_ExactlyOneObservation ==
    \A i \in Ids : Req(i).pc = "done" => Len(Req(i).obs) = 1

\* C2: every request gets exactly one response: no response is written by two
\* parties (handler, /metrics listener, static collaborator, tunnel), and a
\* request whose handling has run to its end has an ended response written by
\* one of them.
C2_ExactlyOneResponse ==
    \A i \in Ids :
        /\ Cardinality(Req(i).writers) <= 1
        /\ Req(i).pc = "done" => (Req(i).ended /\ Cardinality(Req(i).writers) = 1)

\* C3: a render request whose url parameter is missing or empty is answered
\* 400 in the step that receives it, with the single observation 400 and no
\* call to the local cache, the remote cache or the render backend.
C3_MissingUrlIs400 ==
    \A i \in Ids :
        (Started(i) /\ Req(i).url \in {UrlRenderEmpty, UrlRenderNone}) =>
            /\ Req(i).pc = "done"
            /\ Req(i).status = 400
            /\ Req(i).obs = <<400>>
            /\ Req(i).io = {}
            /\ Req(i).key = Null

\* C3 witness: both a request with an empty url parameter and one without the
\* parameter have been answered.
C3_Witness ==
    \E i, j \in Ids :
        /\ Req(i).url = UrlRenderEmpty /\ Req(i).status = 400
        /\ Req(j).url = UrlRenderNone /\ Req(j).status = 400

\* C4: a render or decode-proxy request one of whose steps failed ends with a
\* 500 response and a 500 observation, and the process keeps serving.
C4_FailureIs500 ==
    \A i \in Ids :
        Req(i).failed =>
            /\ Req(i).pc = "done"
            /\ Req(i).status = 500
            /\ Req(i).obs = <<500>>
            /\ ~crashed

\* C5: under sequential access, when a target is requested twice within the
\* shortest cache TTL and both requests succeed, the second one calls neither
\* the render backend nor fetch and sends the same document as the first.
C5_SecondServedFromCache ==
    \A i, j \in Ids :
        ( /\ i < j
          /\ Req(i).pc = "done" /\ Req(i).status = 200
          /\ Req(j).pc = "done" /\ Req(j).status = 200
          /\ Req(i).key # Null /\ Req(i).key = Req(j).key
          /\ Req(j).sentAt - Req(i).sentAt < RenderEx ) =>
            /\ "execute" \notin Req(j).io
            /\ "fetch" \notin Req(j).io
            /\ Gunzip(Req(j).body) = Gunzip(Req(i).body)

\* C6: a value stored under a key in both tiers is, when looked up at once by
\* memCache.get(k) || redis.get(k), returned as a hit.
C6_SetThenGetHits ==
    \A k \in DOMAIN memCache \cap DOMAIN redis :
        ( /\ memCache[k].start = now
          /\ now < redis[k].exp
          /\ redis[k].val = memCache[k].val ) =>
            /\ Truthy(CacheLookup(memCache, redis, k, now))
            /\ CacheLookup(memCache, redis, k, now) = memCache[k].val

PriorityClass(url) ==
    IF StartsWith(url, PuppeteerPrefix) THEN "puppeteer"
    ELSE IF StartsWith(url, ProxyPrefix) THEN "decode"
    ELSE IF StartsWith(url, BarePrefix) THEN "bare"
    ELSE IF url = MetricsPath THEN "metrics"
    ELSE "static"

\* C8: the handler label of every request, and the branch that processes it,
\* is the first match of Render, DecodeProxy, Tunnel, Metrics, Static.
C8_FirstMatchClassification ==
    \A i \in Ids :
        Started(i) =>
            /\ Req(i).handler = PriorityClass(Req(i).url)
            /\ Req(i).branch = PriorityClass(Req(i).url)

\* C9: a response produced through send() is gzip-compressed, with
\* Content-Encoding: gzip, exactly when the Accept-Encoding header of the
\* client's request contains "gzip".
C9_GzipIffClientAccepts ==
    \A i \in Ids :
        (Req(i).ctype = HtmlType /\ Req(i).ended /\ Req(i).status = 200) =>
            ( (Req(i).enc = "gzip" /\ Req(i).body.kind = "gzip")
              <=> (Req(i).ae # Undefined /\ Includes(Req(i).ae, GzipToken)) )

\* C10: the key of a render request and the key of a decode-proxy request are
\* never equal, and every cached key carries the prefix of one pipeline, so
\* neither pipeline reads what the other has stored.
C10_KeysNeverCollide ==
    /\ \A i, j \in Ids :
          ( /\ StartsWith(Req(i).url, PuppeteerPrefix) /\ Req(i).key # Null
            /\ StartsWith(Req(j).url, ProxyPrefix) /\ Req(j).key # Null ) =>
              Req(i).key # Req(j).key
    /\ \A i \in Ids, k \in DOMAIN memCache \cup DOMAIN redis :
          (Req(i).key = k /\ StartsWith(Req(i).url, PuppeteerPrefix)) =>
              \A j \in Ids : StartsWith(Req(j).url, ProxyPrefix) => Req(j).key # k

\* C10 witness: a render request and a decode-proxy request for the same
\* target have both succeeded and both keys are in the local cache.
C10_Witness ==
    \E i, j \in Ids :
        /\ Req(i).url = UrlRender /\ Req(i).status = 200 /\ Req(i).key \in DOMAIN memCache
        /\ Req(j).url = UrlProxy /\ Req(j).status = 200 /\ Req(j).key \in DOMAIN memCache

\* C11: a value the local tier returns on get was inserted at most the local
\* TTL (120 s) before: the step in which a request is answered from the local
\* tier alone finds its key in the tier with an age of at most LruTtl, serves
\* that entry's value, and leaves the tier (each entry's time of insertion
\* included) as it was.
C11_LocalHitWithinTtl ==
    [][\A i \in Ids :
          (reqs[i].pc = "idle" /\ reqs'[i].pc # "idle" /\ reqs'[i].io = {"memGet"})
          => /\ reqs'[i].key \in DOMAIN memCache
             /\ (now - memCache[reqs'[i].key].start) * 1000 <= LruTtl
             /\ reqs'[i].status = 200
                  => reqs'[i].body.text = memCache[reqs'[i].key].val
             /\ memCache' = memCache]_vars

\* a request answered from the local tier by an entry exactly 120 s old
C11_Witness ==
    \E i \in Ids :
        /\ Req(i).io = {"memGet"}
        /\ Req(i).status = 200
        /\ Req(i).key \in DOMAIN memCache
        /\ (Req(i).sentAt - memCache[Req(i).key].start) * 1000 = LruTtl

FirstMetaTag(s) ==
    LET i == MetaMatchStart(s, 1)
    IN  IF i = 0 THEN <<>> ELSE SubSeq(s, i, MetaMatchEnd(s, i))

\* s declares UTF-8 in that tag, in any letter case
DeclaresUtf8(s) ==
    Includes(LowerSeq(FirstMetaTag(s)), CharsetEq \o <<"\"", "u", "t", "f", "-", "8", "\"">>)

\* C13 as stated: the rewrite returns a document that already declares UTF-8
\* in its meta charset tag unchanged, and the rewrite applied to its own
\* result returns that result.
C13_Utf8DocumentUnchanged ==
    /\ (Len(outs) >= 1 /\ DeclaresUtf8(Flat(doc))) => outs[1] = Flat(doc)
    /\ Len(outs) = 2 => outs[2] = outs[1]

\* C13, amended: the rewrite returns a document unchanged when the first tag
\* its pattern matches is exactly <meta charset="utf-8"> (a tag that declares
\* UTF-8 in another spelling is replaced by that one), and the rewrite applied
\* to its own result returns that result, for every document.
C13_RewriteIdempotent ==
    /\ (Len(outs) >= 1 /\ FirstMetaTag(Flat(doc)) = MetaUtf8) => outs[1] = Flat(doc)
    /\ Len(outs) = 2 => outs[2] = outs[1]

\* a document the rewrite changed, rewritten a second time
C13_Witness ==
    /\ Len(outs) = 2
    /\ outs[1] # Flat(doc)
    /\ Len(doc) = MaxFrags

\* the upstream declared a charset that new TextDecoder() rejects
Unusable(c) == c # None /\ CharsetLabel(c) \notin KnownEncodings

\* the text DecodeProxy must produce for such a response: the body decoded as
\* UTF-8, its meta charset tag rewritten
Utf8Fallback(c) ==
    LET rsp == CHOOSE x \in FetchResponses : x.charset = c
    IN  MetaRewrite(DecodeAs("utf-8", rsp.buf))

\* C14: a charset that cannot be used for decoding is not an error. The step
\* that decodes such a body yields the body decoded as UTF-8 and stores it in
\* the local tier; the step that completes the write to the remote tier stores
\* the same text there, records the one observation 200 and, unless another
\* step of the request fails (redis.set, or send() reading the socket),
\* answers 200.
C14_DecodeFallback ==
    [][\A i \in Ids :
          /\ (reqs[i].pc = "body" /\ Unusable(reqs'[i].charset))
                => /\ ~reqs'[i].failed
                   /\ reqs'[i].val = Utf8Fallback(reqs'[i].charset)
                   /\ reqs'[i].key \in DOMAIN memCache'
                   /\ memCache'[reqs'[i].key].val = reqs'[i].val
          /\ (reqs[i].pc = "redisSet" /\ reqs'[i].pc # "redisSet"
                /\ Unusable(reqs[i].charset) /\ ~reqs'[i].failed)
                => /\ reqs'[i].key \in DOMAIN redis'
                   /\ redis'[reqs'[i].key].val = Utf8Fallback(reqs[i].charset)
                   /\ reqs'[i].obs = <<200>>
                   /\ reqs'[i].pc = "done" => reqs'[i].status = 200]_vars

\* a DecodeProxy request whose upstream declared an unusable charset, answered
\* 200 with the UTF-8 text in both tiers
C14_Witness ==
    \E i \in Ids :
        /\ Unusable(Req(i).charset)
        /\ Req(i).pc = "done" /\ Req(i).status = 200 /\ Req(i).obs = <<200>>
        /\ Req(i).body.text = Utf8Fallback(Req(i).charset)
        /\ Req(i).key \in DOMAIN memCache /\ Req(i).key \in DOMAIN redis
        /\ memCache[Req(i).key].val = Req(i).body.text
        /\ redis[Req(i).key].val = Req(i).body.text

\* r has called the rendering backend or fetched the upstream
InvokedBackend(r) == r.io \cap {"execute", "fetch"} # {}

\* C15: requests for one key are not collapsed. A request whose lookup finds
\* the key in neither tier goes on to the backend, whatever the other
\* requests for that key are doing (one of them may be at the backend
\* already); and each request that has been to the backend and whose write to
\* the remote tier succeeds leaves its value under the key there, records the
\* one observation 200 and answers 200.
C15_NoRequestCollapsing ==
    [][\A i \in Ids :
          /\ (reqs[i].pc = "redisGet" /\ reqs'[i].pc # "redisGet" /\ ~reqs'[i].failed
                /\ RedisGet(redis, reqs[i].key, now) = Null)
                => InvokedBackend(reqs'[i])
          /\ (reqs[i].pc = "redisSet" /\ reqs'[i].pc # "redisSet" /\ ~reqs'[i].failed)
                => /\ reqs'[i].key \in DOMAIN redis'
                   /\ redis'[reqs'[i].key].val = reqs[i].val
                   /\ reqs'[i].obs = <<200>>
                   /\ reqs'[i].pc = "done" => reqs'[i].status = 200]_vars

\* two requests for one key that both went to the backend within the same
\* instant (the value is not empty and nothing has expired, so the second
\* cannot have come after the first was stored), both answered 200, the key
\* held by both tiers
C15_Witness ==
    \E i, j \in Ids :
        /\ i # j
        /\ now = 0
        /\ Req(i).key = Req(j).key
        /\ InvokedBackend(Req(i)) /\ InvokedBackend(Req(j))
        /\ Req(i).val # <<>> /\ Req(j).val # <<>>
        /\ Req(i).pc = "done" /\ Req(j).pc = "done"
        /\ Req(i).status = 200 /\ Req(j).status = 200
        /\ Req(i).key \in DOMAIN memCache /\ Req(i).key \in DOMAIN redis

\* C16: a request whose key is present and unexpired in the local tier when
\* its lookup runs makes no call to the remote tier: the lookup does not go on
\* to redis.get.
C16_LocalHitNoRemoteCall ==
    [][\A i \in Ids :
          (/\ reqs[i].pc = "idle" /\ reqs'[i].pc # "idle"
           /\ reqs'[i].key \in DOMAIN memCache
           /\ (now - memCache[reqs'[i].key].start) * 1000 <= LruTtl)
          => "redisGet" \notin reqs'[i].io /\ "redisSet" \notin reqs'[i].io]_vars

\* r was answered with the value redis.get returned
RemoteHit(r) == r.io = {"memGet", "redisGet"} /\ r.obs = <<200>>

\* C17: a request that misses the local tier and hits the remote tier leaves
\* the local tier as it was (the value is sent, not inserted), so that, with
\* requests coming one after the other, the next request for the same key
\* queries the remote tier again.
C17_RemoteHitNotPromoted ==
    [][/\ \A i \in Ids :
             (reqs[i].pc = "redisGet" /\ RemoteHit(reqs'[i])) => memCache' = memCache
       /\ \A i \in Ids \ {MaxReq} :
             (/\ RemoteHit(reqs[i])
              /\ reqs[i + 1].pc = "idle" /\ reqs'[i + 1].pc # "idle"
              /\ reqs'[i + 1].key = reqs[i].key)
             => "redisGet" \in reqs'[i + 1].io]_vars

\* two requests in a row for a key a peer has stored, both served from the
\* remote tier, the local tier still without the key
C17_Witness ==
    /\ RemoteHit(Req(1)) /\ Req(1).status = 200
    /\ RemoteHit(Req(2)) /\ Req(2).status = 200
    /\ Req(2).key = Req(1).key
    /\ Req(1).key \notin DOMAIN memCache

\* every key that both tiers hold unexpired has the same value in both
TiersAgree ==
    \A k \in DOMAIN memCache \cap DOMAIN redis :
        (MemGet(memCache, k, now) # Undefined /\ RedisGet(redis, k, now) # Null)
        => memCache[k].val = redis[k].val

Cached(i) == Req(i).branch \in {"puppeteer", "decode"}

\* C19 as stated: a value produced while handling a request that ended 500 is
\* not served from the cache afterwards. When a request is answered 200 from
\* a cache tier with the value a failed request for its key had produced,
\* some request that did not fail has produced that value.
C19_FailedValueNeverServed ==
    \A i, j \in Ids :
        (/\ i # j /\ Cached(i)
         /\ Req(i).status = 500 /\ Req(i).val # Null
         /\ Req(j).key = Req(i).key
         /\ Req(j).status = 200 /\ ~InvokedBackend(Req(j))
         /\ Req(j).body.kind = "text" /\ Req(j).body.text = Req(i).val)
        => \E k \in Ids \ {i} :
              /\ InvokedBackend(Req(k)) /\ ~Req(k).failed
              /\ Req(k).key = Req(i).key /\ Req(k).val = Req(i).val

\* C19, amended: a request that ends 500 undoes nothing. If it fails before
\* its backend call returned, it has written to neither tier and its failing
\* step leaves both as they are; if it fails after (redis.set rejects, or
\* send() throws once redis.set is done), the value it stored in the local
\* tier stays there, and the remote tier is as before or holds that value.
C19_FailureUndoesNothing ==
    [][\A i \in Ids :
          (reqs[i].branch \in {"puppeteer", "decode"}
             /\ reqs[i].status # 500 /\ reqs'[i].status = 500)
          => /\ memCache' = memCache
             /\ reqs[i].pc # "redisSet"
                  => redis' = redis /\ reqs'[i].io \cap {"memSet", "redisSet"} = {}
             /\ reqs[i].pc = "redisSet"
                  => \/ redis' = redis
                     \/ /\ reqs[i].key \in DOMAIN redis'
                        /\ redis'[reqs[i].key].val = reqs[i].val]_vars

\* a request answered 200 from the local tier with the value of a request
\* that ended 500
C19_Witness ==
    \E i, j \in Ids :
        /\ i # j /\ Cached(i)
        /\ Req(i).status = 500 /\ Req(i).val # Null
        /\ Req(j).key = Req(i).key
        /\ Req(j).status = 200 /\ Req(j).io = {"memGet"}
        /\ Req(j).body.kind = "text" /\ Req(j).body.text = Req(i).val

\* C20: for every request not handed to the tunnel adapter and answered in
\* full, each code recorded for it in the metrics is the status of the
\* response that was sent.
C20_ObservedCodeIsStatusSent ==
    \A i \in Ids :
        (Req(i).pc = "done" /\ Req(i).branch # "bare")
        => \A n \in 1..Len(Req(i).obs) : Req(i).obs[n] = Req(i).status

====
